---------------------------- MODULE Spec2Model ----------------------------
(***************************************************************************)
(* Model of the Grade-10 group bot (src/bot.py, src/config.py).            *)
(*                                                                         *)
(* Three groups of handlers are modelled, each over its own state:         *)
(*   - admin controls: warn_user, mute_user          (Spec)                *)
(*   - video chat requests: request_video_chat       (VideoSpec)           *)
(*   - homework conversation: homework_start/_add    (HomeworkSpec)        *)
(*                                                                         *)
(* A handler is a coroutine.  It runs without interruption from one await  *)
(* to the next; each action below is one such run.  A handler that has     *)
(* reached an await is "in flight" and other handlers may begin or resume  *)
(* before it does.                                                         *)
(***************************************************************************)
EXTENDS Integers, Sequences, FiniteSets, Bags, TLC

VARIABLES
    users,        \* table users: user_id -> warnings, for the rows that exist
    gateway,      \* bag of Bot API moderation calls made (restrict/ban/kick)
    replies,      \* bag of reply_text messages sent by the admin handlers
    inflight,     \* bag of admin handlers suspended at an await
    nUpdates,     \* number of admin updates dispatched so far
    overlapped,   \* TRUE once an admin handler began while another was in flight
    vcRequests,   \* chat_data["video_chat_requests"] of one chat
    vcInflight,   \* request_video_chat handlers suspended at an await
    vcAccepted,   \* number of requests that were added to the set
    vcStarts,     \* number of invocations of start_video_chat
    vcUpdates,    \* number of video chat updates dispatched so far
    homework,     \* table homework: sequence of inserted rows
    jobs,         \* job queue: sequence of reminder jobs scheduled with run_once
    conv,         \* ConversationHandler state per user: "END" or "HOMEWORK"
    hwReplies,    \* last reply of the homework conversation per user
    hwUpdates     \* number of homework updates dispatched so far

adminVars == <<users, gateway, replies, inflight, nUpdates, overlapped>>
videoVars == <<vcRequests, vcInflight, vcAccepted, vcStarts, vcUpdates>>
hwVars    == <<homework, jobs, conv, hwReplies, hwUpdates>>
vars      == <<adminVars, videoVars, hwVars>>

---------------------------------------------------------------------------
(* Bounds and program constants *)

MaxUpdates  == 4      \* admin updates dispatched in one behaviour
MaxInFlight == 2      \* admin handlers suspended at the same time

MAX_WARNINGS == 3     \* Config.MAX_WARNINGS

Groups == {"G1", "G2"}
Users  == {"U1", "U2"}
NoReply == "none"     \* update.message.reply_to_message is None

---------------------------------------------------------------------------
(* Admin controls *)

\* Table users as init_db leaves it: the table is created only if it does not
\* exist, so rows already present in grade10_bot.db are kept; a row's warnings
\* column defaults to 0.  No handler of the bot inserts into users.
UsersTables == UNION {[R -> {0}] : R \in SUBSET Users}

\* The warning count stored for user u as seen from group g.  The table's key
\* is user_id alone; a user without a row has no stored count and reads as 0.
GetCount(tbl, g, u) == IF u \in DOMAIN tbl THEN tbl[u] ELSE 0

\* UPDATE users SET warnings = warnings + 1 WHERE user_id = ?
WarnStore(tbl, u) ==
    IF u \in DOMAIN tbl THEN [tbl EXCEPT ![u] = @ + 1] ELSE tbl

\* context.bot.restrict_chat_member(chat_id, user_id, permissions)
MuteCall(g, u) == [action |-> "restrict", chat |-> g, user |-> u]

\* A ban of u in g as the gateway would record it; no handler makes one.
BanCall(g, u)  == [action |-> "ban", chat |-> g, user |-> u]

\* warn_user banning whenever the stored count is at the threshold, without
\* resetting it.
WarnGatewayBanAtThreshold(gw, tbl, g, u) ==
    IF GetCount(tbl, g, u) >= MAX_WARNINGS
    THEN gw (+) SetToBag({BanCall(g, u)}) ELSE gw

\* The Bot API calls warn_user makes after the UPDATE (tbl is the table after
\* it): none.
WarnGateway(gw, tbl, g, u) == gw

\* warn_user without its reply_to_message test.
WarnRejectsNever(t) == FALSE

\* if not update.message.reply_to_message
WarnRejects(t) == t = NoReply

Reply(g, kind, u) == [chat |-> g, kind |-> kind, about |-> u]

\* The reply warn_user sends for a warned user.
WarnReply(g, u) == Reply(g, "warned", u)

Handler(cmd, g, t, pc) ==
    [cmd |-> cmd, chat |-> g, target |-> t, pc |-> pc]

One(x) == SetToBag({x})

\* An admin update is dispatched to its handler, which runs to its first await.
Dispatch(h) ==
    /\ nUpdates < MaxUpdates
    /\ BagCardinality(inflight) < MaxInFlight
    /\ nUpdates' = nUpdates + 1
    /\ inflight' = inflight (+) One(h)
    /\ overlapped' = (overlapped \/ inflight # EmptyBag)

\* warn_user up to its await of reply_text.
WarnUser(g, t) ==
    /\ Dispatch(Handler("warn", g, t, "await_reply"))
    /\ IF WarnRejects(t)
       THEN /\ replies' = replies (+) One(Reply(g, "warn_needs_reply", NoReply))
            /\ UNCHANGED <<users, gateway>>
       ELSE /\ users' = WarnStore(users, t)
            /\ gateway' = WarnGateway(gateway, WarnStore(users, t), g, t)
            /\ replies' = replies (+) One(WarnReply(g, t))
    /\ UNCHANGED <<videoVars, hwVars>>

\* mute_user up to its first await: reply_text when there is no replied-to
\* message, restrict_chat_member otherwise.
MuteUser(g, t) ==
    /\ IF t = NoReply
       THEN /\ Dispatch(Handler("mute", g, t, "await_reply"))
            /\ replies' = replies (+) One(Reply(g, "mute_needs_reply", NoReply))
            /\ UNCHANGED gateway
       ELSE /\ Dispatch(Handler("mute", g, t, "await_restrict"))
            /\ gateway' = gateway (+) One(MuteCall(g, t))
            /\ UNCHANGED replies
    /\ UNCHANGED <<users, videoVars, hwVars>>

\* restrict_chat_member returns: mute_user goes on to reply_text.
MuteRestricted(h) ==
    /\ BagIn(h, inflight) /\ h.pc = "await_restrict"
    /\ inflight' = (inflight (-) One(h)) (+) One([h EXCEPT !.pc = "await_reply"])
    /\ replies' = replies (+) One(Reply(h.chat, "muted", h.target))
    /\ UNCHANGED <<users, gateway, nUpdates, overlapped, videoVars, hwVars>>

\* restrict_chat_member raises (the bot is no admin, network error): the
\* exception leaves mute_user, no reply is sent.
MuteFailed(h) ==
    /\ BagIn(h, inflight) /\ h.pc = "await_restrict"
    /\ inflight' = inflight (-) One(h)
    /\ UNCHANGED <<users, gateway, replies, nUpdates, overlapped, videoVars, hwVars>>

\* reply_text returns and the handler returns.
ReplySent(h) ==
    /\ BagIn(h, inflight) /\ h.pc = "await_reply"
    /\ inflight' = inflight (-) One(h)
    /\ UNCHANGED <<users, gateway, replies, nUpdates, overlapped, videoVars, hwVars>>

AdminInit ==
    /\ users \in UsersTables
    /\ gateway = EmptyBag
    /\ replies = EmptyBag
    /\ inflight = EmptyBag
    /\ nUpdates = 0
    /\ overlapped = FALSE

VideoInit ==
    /\ vcRequests = {}
    /\ vcInflight = EmptyBag
    /\ vcAccepted = 0
    /\ vcStarts = 0
    /\ vcUpdates = 0

HomeworkInit ==
    /\ homework = <<>>
    /\ jobs = <<>>
    /\ conv = [u \in Users |-> "END"]
    /\ hwReplies = [u \in Users |-> "none"]
    /\ hwUpdates = 0

Init == AdminInit /\ VideoInit /\ HomeworkInit

Next ==
    \/ \E g \in Groups, t \in Users \cup {NoReply} : WarnUser(g, t)
    \/ \E g \in Groups, t \in Users \cup {NoReply} : MuteUser(g, t)
    \/ \E h \in BagToSet(inflight) : MuteRestricted(h)
    \/ \E h \in BagToSet(inflight) : MuteFailed(h)
    \/ \E h \in BagToSet(inflight) : ReplySent(h)

Spec == Init /\ [][Next]_vars

(* Observations on the admin state used by the properties *)

BanCalls(g, u)          == CopiesIn(BanCall(g, u), gateway)
Replied(g, kind, u)     == CopiesIn(Reply(g, kind, u), replies)
WarnsInFlight(g, u)     == CopiesIn(Handler("warn", g, u, "await_reply"), inflight)
WarnsCompleted(g, u)    == Replied(g, "warned", u) - WarnsInFlight(g, u)
Quiet                   == inflight = EmptyBag
\* The only updates so far are warnings of u in g, handled one after another,
\* and all of them have returned.
OnlyWarned(g, u)        == /\ Quiet
                           /\ ~overlapped
                           /\ nUpdates = WarnsCompleted(g, u)
\* This step is warn_user storing a warning for u in g.
WarnStep(g, u)          == WarnsInFlight(g, u)' = WarnsInFlight(g, u) + 1

\* C1: when MAX_WARNINGS warnings are issued one after another to a pair that
\* starts at count 0, the MAX_WARNINGS-th is answered as an escalation and the
\* gateway has received exactly one ban of that user in that group; before
\* that, no ban.
C1_EscalatesAtThreshold ==
    \A g \in Groups, u \in Users :
        OnlyWarned(g, u) =>
            /\ WarnsCompleted(g, u) < MAX_WARNINGS => BanCalls(g, u) = 0
            /\ WarnsCompleted(g, u) = MAX_WARNINGS =>
                   /\ BanCalls(g, u) = 1
                   /\ Replied(g, "escalated", u) = 1

\* C2: after the k-th consecutive warning of a pair, 1 <= k < MAX_WARNINGS,
\* the stored count is k, every one of them was answered as a warning and
\* the gateway has not been called.
C2_WarnedBelowThreshold ==
    \A g \in Groups, u \in Users :
        (OnlyWarned(g, u) /\ WarnsCompleted(g, u) \in 1 .. (MAX_WARNINGS - 1)) =>
            /\ GetCount(users, g, u) = WarnsCompleted(g, u)
            /\ Replied(g, "warned", u) = WarnsCompleted(g, u)
            /\ gateway = EmptyBag

\* C3: after the warning that reaches MAX_WARNINGS (the one that escalates),
\* the stored count of the pair is 0 again.
C3_ResetAfterEscalation ==
    \A g \in Groups, u \in Users :
        (OnlyWarned(g, u) /\ WarnsCompleted(g, u) = MAX_WARNINGS) =>
            GetCount(users, g, u) = 0

\* C4: a warning stored for (g, u) leaves the count of every other pair as it
\* was, the same user in another group included.
C4_OtherPairsUnchanged ==
    [][\A g \in Groups, u \in Users :
          WarnStep(g, u) =>
              \A g2 \in Groups, u2 \in Users :
                  <<g2, u2>> # <<g, u>> =>
                      GetCount(users', g2, u2) = GetCount(users, g2, u2)]_vars

\* C5: whatever the interleaving of warnings of the same pair, the pair is
\* banned at most once and at most one warning is answered as an escalation.
C5_NoDoubleBan ==
    \A g \in Groups, u \in Users :
        /\ BanCalls(g, u) <= 1
        /\ Replied(g, "escalated", u) <= 1

\* Two warnings of the same pair are in flight and the stored count of the
\* user has reached the threshold.
C5_Witness ==
    \E g \in Groups, u \in Users :
        /\ WarnsInFlight(g, u) >= 2
        /\ GetCount(users, g, u) >= MAX_WARNINGS

\* C6: no warning is lost: below the threshold the stored count of a pair
\* equals the number of warnings of that pair that have completed, also for a
\* user without a row in users.
C6_NoWarningLost ==
    \A g \in Groups, u \in Users :
        (/\ Quiet
         /\ nUpdates = WarnsCompleted(g, u)
         /\ WarnsCompleted(g, u) < MAX_WARNINGS) =>
            GetCount(users, g, u) = WarnsCompleted(g, u)

\* C7: when no handler is in flight every stored count is in
\* 0 .. MAX_WARNINGS - 1, and a step changes a count only by +1 to a value
\* below the threshold or by a reset to 0.
C7_CountBelowThreshold ==
    [][\A g \in Groups, u \in Users :
          /\ Quiet' => GetCount(users', g, u) \in 0 .. (MAX_WARNINGS - 1)
          /\ GetCount(users', g, u) # GetCount(users, g, u) =>
                 \/ /\ GetCount(users', g, u) = GetCount(users, g, u) + 1
                    /\ GetCount(users', g, u) < MAX_WARNINGS
                 \/ GetCount(users', g, u) = 0]_vars

RejectedWarn(g) == Handler("warn", g, NoReply, "await_reply")

\* C8: a warn command that replies to no message changes no stored count and
\* makes no gateway call; it sends the error reply and nothing else, and its
\* return changes nothing either.
C8_WarnWithoutReplyRejected ==
    [][\A g \in Groups :
          /\ CopiesIn(RejectedWarn(g), inflight') > CopiesIn(RejectedWarn(g), inflight) =>
                 /\ users' = users
                 /\ gateway' = gateway
                 /\ replies' = replies (+) One(Reply(g, "warn_needs_reply", NoReply))
          /\ CopiesIn(RejectedWarn(g), inflight') < CopiesIn(RejectedWarn(g), inflight) =>
                 UNCHANGED <<users, gateway, replies>>]_vars

\* A rejected warn command has been answered while a user has warnings stored
\* and the gateway has been called by another command.
C8_Witness ==
    \E g \in Groups :
        /\ Replied(g, "warn_needs_reply", NoReply) > 0
        /\ \E u \in DOMAIN users : users[u] > 0
        /\ gateway # EmptyBag

---------------------------------------------------------------------------
(* Video chat requests: request_video_chat, start_video_chat *)

NumRequesters       == 6    \* users of the chat who may request a video chat
MaxVcUpdates        == 7    \* video chat updates dispatched in one behaviour
MaxVcInFlight       == 2    \* request handlers suspended at the same time

VIDEO_CHAT_THRESHOLD == 5   \* if request_count >= 5

Requesters == 1 .. NumRequesters

VcHandler(u, pc, n) == [user |-> u, pc |-> pc, request_count |-> n]

VcDispatch ==
    /\ vcUpdates < MaxVcUpdates
    /\ BagCardinality(vcInflight) < MaxVcInFlight
    /\ vcUpdates' = vcUpdates + 1

\* if request_count >= 5
ReachesThreshold(n) == n >= VIDEO_CHAT_THRESHOLD

\* request_video_chat up to its first await.  The user is looked up in the
\* set; a new user is added and the size of the set is read into the local
\* request_count before the handler awaits the reply.
RequestVideoChat(u) ==
    /\ VcDispatch
    /\ IF u \in vcRequests
       THEN /\ vcInflight' = vcInflight (+) One(VcHandler(u, "await_already", 0))
            /\ UNCHANGED <<vcRequests, vcAccepted>>
       ELSE /\ vcRequests' = vcRequests \cup {u}
            /\ vcAccepted' = vcAccepted + 1
            /\ vcInflight' = vcInflight (+)
                   One(VcHandler(u, "await_requested", Cardinality(vcRequests \cup {u})))
    /\ UNCHANGED <<vcStarts, adminVars, hwVars>>

\* The "already requested" reply returns and the handler returns.
VcAlreadyReplied(h) ==
    /\ BagIn(h, vcInflight) /\ h.pc = "await_already"
    /\ vcInflight' = vcInflight (-) One(h)
    /\ UNCHANGED <<vcRequests, vcAccepted, vcStarts, vcUpdates, adminVars, hwVars>>

\* The "requested" reply returns: the handler tests its request_count and,
\* at the threshold, calls start_video_chat, which awaits its own reply.
VcRequestReplied(h) ==
    /\ BagIn(h, vcInflight) /\ h.pc = "await_requested"
    /\ IF ReachesThreshold(h.request_count)
       THEN /\ vcStarts' = vcStarts + 1
            /\ vcInflight' = (vcInflight (-) One(h)) (+) One([h EXCEPT !.pc = "await_start"])
       ELSE /\ vcInflight' = vcInflight (-) One(h)
            /\ UNCHANGED vcStarts
    /\ UNCHANGED <<vcRequests, vcAccepted, vcUpdates, adminVars, hwVars>>

\* start_video_chat returns: the handler replaces the set by an empty one.
VcStarted(h) ==
    /\ BagIn(h, vcInflight) /\ h.pc = "await_start"
    /\ vcRequests' = {}
    /\ vcInflight' = vcInflight (-) One(h)
    /\ UNCHANGED <<vcAccepted, vcStarts, vcUpdates, adminVars, hwVars>>

VideoNext ==
    \/ \E u \in Requesters : RequestVideoChat(u)
    \/ \E h \in BagToSet(vcInflight) : VcAlreadyReplied(h)
    \/ \E h \in BagToSet(vcInflight) : VcRequestReplied(h)
    \/ \E h \in BagToSet(vcInflight) : VcStarted(h)

VideoSpec == Init /\ [][VideoNext]_vars

VcQuiet == vcInflight = EmptyBag

\* A request of a user already in the set adds nothing and starts nothing.
RepeatedRequestIgnored ==
    [][\A u \in Requesters :
          (u \in vcRequests /\
           CopiesIn(VcHandler(u, "await_already", 0), vcInflight') >
               CopiesIn(VcHandler(u, "await_already", 0), vcInflight)) =>
              UNCHANGED <<vcRequests, vcAccepted, vcStarts>>]_vars

\* When no request handler is in flight the set holds 0 to 4 users, and a
\* handler that started a video chat leaves the set empty when it returns.
QuietSetBelowThreshold ==
    [][/\ VcQuiet' => Cardinality(vcRequests') \in 0 .. (VIDEO_CHAT_THRESHOLD - 1)
       /\ (\E h \in BagToSet(vcInflight) :
              h.pc = "await_start" /\ CopiesIn(h, vcInflight') < CopiesIn(h, vcInflight))
              => vcRequests' = {}]_vars

\* C9: with request handlers running one at a time or interleaved at their
\* awaits, when none is in flight the set holds 0 to 4 users and
\* start_video_chat has been invoked exactly once for each 5 users whose
\* request was accepted.
C9_OneStartPerFiveRequests ==
    VcQuiet =>
        /\ Cardinality(vcRequests) \in 0 .. (VIDEO_CHAT_THRESHOLD - 1)
        /\ vcStarts = vcAccepted \div VIDEO_CHAT_THRESHOLD

---------------------------------------------------------------------------
(* Homework conversation: homework_start, homework_add, /cancel *)

MaxHwUpdates == 3     \* homework updates dispatched in one behaviour
MaxParts     == 3     \* pieces of a message between " - " separators

HW_CHAT == "G1"

\* A message text is the sequence of its pieces between " - " separators, as
\* text.split(" - ") returns them.  A piece records the text before its first
\* ":" (NoColon when it has none), the text after it, and, when the piece has
\* the shape DD/MM/YYYY, the three numbers.
NoColon == "<none>"
Words(subject, rest) == [subject |-> subject, rest |-> rest, dmy |-> <<>>]
DateText(d, m, y)    == [subject |-> NoColon, rest |-> "DD/MM/YYYY", dmy |-> <<d, m, y>>]

Pieces ==
    { Words(NoColon, "Page 45"),
      Words("Math", "Page 45"),
      DateText(15, 12, 2023),
      DateText(29, 2, 2023),
      DateText(29, 2, 2024),
      DateText(1, 1, 1),
      DateText(1, 13, 2023) }

Texts == UNION {[1 .. n -> Pieces] : n \in 1 .. MaxParts}

\* A date value, and the exception raised in place of one.
Date(d, m, y) == [err |-> "none", day |-> d, month |-> m, year |-> y]
Raised(e)     == [err |-> e, day |-> 0, month |-> 0, year |-> 0]

IsLeap(y) == (y % 4 = 0 /\ y % 100 # 0) \/ y % 400 = 0

DaysInMonth(m, y) ==
    IF m = 2 THEN (IF IsLeap(y) THEN 29 ELSE 28)
    ELSE IF m \in {4, 6, 9, 11} THEN 30 ELSE 31

\* datetime.strptime(piece, "%d/%m/%Y").date(): the date, or ValueError.
Strptime(piece) ==
    IF piece.dmy = <<>> THEN Raised("ValueError")
    ELSE LET d == piece.dmy[1]  m == piece.dmy[2]  y == piece.dmy[3]
         IN  IF /\ y \in 1 .. 9999
                /\ m \in 1 .. 12
                /\ d \in 1 .. DaysInMonth(m, y)
             THEN Date(d, m, y)
             ELSE Raised("ValueError")

\* due_date - timedelta(days=1): the day before, or OverflowError below
\* date.min.
DayBefore(date) ==
    IF date.day > 1 THEN [date EXCEPT !.day = @ - 1]
    ELSE IF date.month > 1
         THEN Date(DaysInMonth(date.month - 1, date.year), date.month - 1, date.year)
         ELSE IF date.year > 1
              THEN Date(31, 12, date.year - 1)
              ELSE Raised("OverflowError")

\* The subject and description homework_add takes from the first piece.
SubjectOf(piece) == IF piece.subject # NoColon THEN piece.subject ELSE "General"
DescriptionOf(piece) == piece.rest

\* What the try block of homework_add does with a text, as the exception
\* that leaves it ("IndexError", "ValueError", "OverflowError") or "ok".
\* parts[1] is read before anything is stored; the reminder time is computed
\* after add_homework has committed the row.
ParseOutcome(text) ==
    IF Len(text) < 2 THEN "IndexError"
    ELSE IF Strptime(text[2]).err # "none" THEN Strptime(text[2]).err
    ELSE IF DayBefore(Strptime(text[2])).err # "none" THEN DayBefore(Strptime(text[2])).err
    ELSE "ok"

Row(u, text) ==
    [chat_id |-> HW_CHAT, subject |-> SubjectOf(text[1]),
     description |-> DescriptionOf(text[1]),
     due_date |-> Strptime(text[2]), added_by |-> u]

Job(text) ==
    [chat_id |-> HW_CHAT, when |-> DayBefore(Strptime(text[2])),
     data |-> <<SubjectOf(text[1]), DescriptionOf(text[1])>>]

\* add_homework is reached when parts[1] parses as a date.
StoresRow(text) == ParseOutcome(text) \in {"ok", "OverflowError"}

\* job_queue.run_once is reached when the reminder time could be computed.
SchedulesJob(text) == ParseOutcome(text) = "ok"

HwDispatch ==
    /\ hwUpdates < MaxHwUpdates
    /\ hwUpdates' = hwUpdates + 1

\* /homework outside a conversation: the entry point.
HomeworkStart(u) ==
    /\ HwDispatch
    /\ conv[u] = "END"
    /\ conv' = [conv EXCEPT ![u] = "HOMEWORK"]
    /\ hwReplies' = [hwReplies EXCEPT ![u] = "prompt"]
    /\ UNCHANGED <<homework, jobs, adminVars, videoVars>>

\* A text message in state HOMEWORK: homework_add.  IndexError and ValueError
\* are caught and answered; any other exception leaves the handler, and the
\* ConversationHandler keeps the state it had.
HomeworkAdd(u, text) ==
    /\ HwDispatch
    /\ conv[u] = "HOMEWORK"
    /\ homework' = IF StoresRow(text) THEN Append(homework, Row(u, text)) ELSE homework
    /\ jobs' = IF SchedulesJob(text) THEN Append(jobs, Job(text)) ELSE jobs
    /\ hwReplies' = [hwReplies EXCEPT ![u] =
                        CASE ParseOutcome(text) = "ok" -> "added"
                          [] ParseOutcome(text) \in {"IndexError", "ValueError"} -> "invalid"
                          [] OTHER -> @]
    /\ conv' = [conv EXCEPT ![u] = IF ParseOutcome(text) = "ok" THEN "END" ELSE "HOMEWORK"]
    /\ UNCHANGED <<adminVars, videoVars>>

\* /cancel in state HOMEWORK: the fallback is a plain lambda, not a
\* coroutine function.  A library that awaits the callback's result raises
\* TypeError and keeps the state; one that accepts the value ends the
\* conversation.
HomeworkCancel(u) ==
    /\ HwDispatch
    /\ conv[u] = "HOMEWORK"
    /\ conv' \in {[conv EXCEPT ![u] = "END"], conv}
    /\ UNCHANGED <<homework, jobs, hwReplies, adminVars, videoVars>>

HomeworkNext ==
    \/ \E u \in Users : HomeworkStart(u)
    \/ \E u \in Users, text \in Texts : HomeworkAdd(u, text)
    \/ \E u \in Users : HomeworkCancel(u)

HomeworkSpec == Init /\ [][HomeworkNext]_vars

\* C10: homework_add on a text that does not parse stores no row, schedules
\* no job and stays in HOMEWORK; on a text that parses it stores one row,
\* schedules one job and ends the conversation; so the number of jobs
\* scheduled always equals the number of rows stored.
C10_OneJobPerRow ==
    Len(jobs) = Len(homework)

===========================================================================
